---- MODULE Spec2Model ----
(***************************************************************************)
(* NeonPlayer (main.py): the playback controller, the progress poller and  *)
(* the pygame mixer it drives, as a state machine.  Every step is one Qt   *)
(* slot running to completion on the main thread, or one step of the audio *)
(* backend.  Times are in milliseconds unless a name says seconds.  The    *)
(* nested event loop of a modal QMessageBox is not modelled: a slot that   *)
(* raises one is taken as finished when the dialog is dismissed.           *)
(*                                                                         *)
(* Spec      the playback controller, the poller and the mixer             *)
(* SpecList  the playlist and the list widget that shows it                *)
(* SpecMeta  play_track over every kind of embedded artwork                *)
(* SpecBg    the background animation, from every colour to every target   *)
(* SpecDL    the marketplace dialog, its download threads and their        *)
(*           signals, interleaved with the main thread's timers            *)
(* SpecProgress  one download of 1,000,000 bytes in 8192-byte chunks       *)
(***************************************************************************)
EXTENDS Integers, Sequences, FiniteSets, TLC

\* ------------------------------------------------------------------ bounds
MaxTracks == 2          \* longest playlist explored by Spec and SpecMeta
MaxPos == 1500          \* largest mixer position explored (ms)
MaxListTracks == 3      \* longest playlist explored by SpecList and SpecDL
MaxDownloads == 2       \* download threads started in one exploration
MaxDialogs == 2         \* marketplace dialogs opened in one exploration

\* --------------------------------------------------------------- constants
PollMs == 500           \* end_timer.start(500)
CrossfadeMax == 5000    \* crossfade_slider.setRange(0, 5000)
SliderDefaultMax == 100 \* progress_slider.setRange(0, 100)
ChannelMax == 255       \* the largest value of a QColor channel
LerpDivisor == 20       \* lerp_color's t = 0.05, as the divisor 1 / t
ChunkSize == 8192       \* chunk_size of the download worker

\* ------------------------------------------------------------- environment
\* The files the user can pick.  bad.mp3 is rejected by mixer.music.load;
\* a.mp3 carries a tag length of 1 s; c.OGG has no readable length.
Tracks == {"a.mp3", "bad.mp3", "c.OGG"}

Decodable(path) == path # "bad.mp3"

TrackLengthMs(path) == IF path = "a.mp3" THEN 1000 ELSE 0

\* The directory listings load_folder can walk: file names in traversal order.
Folders == { <<>>, <<"notes.txt">>, <<"c.OGG", "notes.txt">>, <<"a.mp3", "bad.mp3">> }

Suffix(f) == IF f = "a.mp3" \/ f = "bad.mp3" THEN ".mp3"
             ELSE IF f = "c.OGG" THEN ".OGG"
             ELSE ".txt"

Lower(s) == IF s = ".OGG" THEN ".ogg" ELSE s

AudioExts == {".mp3", ".wav", ".ogg"}

\* What MutagenFile and QPixmap.loadFromData can make of a file's artwork:
\*   unreadable    MutagenFile raises, or mutagen is not installed
\*   no_picture    the tags hold no APIC frame
\*   bad_picture   an APIC frame whose bytes QPixmap cannot decode
\*   odd_picture   a picture get_dominant_colors fails on
\*   flat_picture  a picture of a single colour
\*   picture       a picture with two dominant colours
TagKinds == {"unreadable", "no_picture", "bad_picture", "odd_picture",
             "flat_picture", "picture"}

\* an Ogg file carries no ID3 frames
TagKindsOf(path) == IF path = "c.OGG" THEN {"unreadable", "no_picture"}
                    ELSE TagKinds

\* the files as Spec finds them
PlainTags == [t \in Tracks |-> IF t = "a.mp3" THEN "picture" ELSE "no_picture"]

\* the two dominant colours of a file's picture, most frequent first
PictureColors(path) == << <<200, 30, 30>>, <<30, 30, 200>> >>

\* ------------------------------------------------------------------- state
VARIABLES
    playlist,              \* self.playlist: sequence of paths
    current_index,         \* self.current_index
    playing,               \* self.playing
    loop,                  \* self.loop
    shuffle,               \* self.shuffle
    current_track_length,  \* self.current_track_length (ms, 0 = unknown)
    current_play_offset,   \* self._current_play_offset (seconds)
    seeking,               \* self._seeking
    label_elapsed,         \* self.label_elapsed text, as <<minutes, seconds>>
    viz_active,            \* self.visualizer.active
    mixer,                 \* pygame.mixer.music: loaded file, state, get_pos()
    lastBy,                \* who took the last step: "user", "poller" or "backend"
    cmds,                  \* the mixer calls the last slot made, in order
    errorShown,            \* QMessageBox.critical dialogs the last slot raised
    run,                   \* consecutive next_track calls: start index, count
    widget,                \* self.playlist_widget: the rows shown, top to bottom
    album_art,             \* what self.album_art shows
    target_color_1,        \* self.target_color_1 as <<r, g, b>>
    target_color_2,        \* self.target_color_2
    bg_color_1,            \* self.bg_color_1
    bg_color_2,            \* self.bg_color_2
    dialog,                \* the MarketplaceDialog in exec(), 0 when none is open
    connections,           \* per dialog: the slot sets connected to its _signals
    workers,               \* the download threads started so far
    sigq,                  \* slot calls posted to the main thread, oldest first
    tags,                  \* per file: what its embedded artwork is like
    server,                \* the responses the HTTP servers can give
    hues,                  \* the hues random.randint(0, 360) can give
    capacity               \* the longest playlist this exploration builds

progVars == <<playlist, current_index, playing, loop, shuffle,
              current_track_length, current_play_offset, seeking,
              label_elapsed, viz_active, mixer>>

artVars == <<album_art, target_color_1, target_color_2>>

bgVars == <<bg_color_1, bg_color_2>>

dlVars == <<dialog, connections, workers, sigq>>

envVars == <<tags, server, hues, capacity>>

vars == <<playlist, current_index, playing, loop, shuffle,
          current_track_length, current_play_offset, seeking,
          label_elapsed, viz_active, mixer, lastBy, cmds, errorShown, run,
          widget, album_art, target_color_1, target_color_2,
          bg_color_1, bg_color_2, dialog, connections, workers, sigq,
          tags, server, hues, capacity>>

\* ----------------------------------------------------------------- helpers
Min(a, b) == IF a < b THEN a ELSE b

\* math.ceil of a length in ms, in whole seconds
CeilSec(ms) == (ms + 999) \div 1000

\* _format_time: int(seconds), then m = s // 60, ss = s % 60
FormatTime(ms) == LET s == ms \div 1000 IN <<s \div 60, s % 60>>

\* progress_slider.maximum() as _update_metadata leaves it for a length
SliderMaxFor(len) == IF len > 0 THEN CeilSec(len) ELSE SliderDefaultMax

SliderMax == SliderMaxFor(current_track_length)

\* one call to pygame.mixer.music
Cmd(c, path, n, ok) == [c |-> c, path |-> path, n |-> n, ok |-> ok]

Called(c) == \E i \in 1..Len(cmds) : cmds[i].c = c

NoRun == [start |-> -1, n |-> 0]

\* ------------------------------------------------------------------- mixer
NoMusic == [loaded |-> "", st |-> "idle", pos |-> -1]

\* music.stop() / the end of a fadeout: halted, get_pos() back to -1
Stopped(m) == [loaded |-> m.loaded, st |-> "idle", pos |-> -1]

\* music.get_busy(): true only while the stream is actively playing
Busy(m) == m.st = "playing"

\* music.pause() / music.unpause()
Paused(m) == IF m.st = "playing" THEN [m EXCEPT !.st = "paused"] ELSE m

Unpaused(m) == IF m.st = "paused" THEN [m EXCEPT !.st = "playing"] ELSE m

\* ----------------------------------------------------------------- colours
\* bg_color_1, bg_color_2 and their targets at construction
InitColor1 == <<10, 10, 20>>

InitColor2 == <<30, 0, 40>>

\* the colours _update_metadata starts from
DefaultColors == << <<20, 0, 40>>, <<0, 20, 50>> >>

\* what get_dominant_colors returns from its except branch
FallbackColors == << <<20, 20, 20>>, <<40, 0, 60>> >>

\* the hues random.randint may give that are explored
NeonHues == {0, 120}

\* the one hue it gives in the specifications that are not about colours
PlainHues == {0}

\* QColor.fromHsv(h, 200, 100) and QColor.fromHsv((h + 40) % 360, 200, 50),
\* read back as red, green and blue
NeonColors(h) == IF h = 0 THEN << <<100, 21, 21>>, <<50, 37, 10>> >>
                 ELSE << <<21, 100, 21>>, <<10, 50, 37>> >>

TypeOK ==
    /\ playlist \in Seq(Tracks) /\ Len(playlist) <= capacity
    /\ Len(widget) = Len(playlist)
    /\ current_index \in -1..capacity
    /\ playing \in BOOLEAN /\ loop \in BOOLEAN /\ shuffle \in BOOLEAN
    /\ current_track_length \in {0} \cup {TrackLengthMs(t) : t \in Tracks}
    /\ current_play_offset \in Nat
    /\ seeking \in BOOLEAN
    /\ viz_active \in BOOLEAN
    /\ mixer.loaded \in Tracks \cup {""}
    /\ mixer.st \in {"idle", "playing", "paused"}
    /\ mixer.pos \in -1..MaxPos
    /\ errorShown \in 0..1
    /\ album_art \in {"placeholder", "picture", "blank"}
    /\ dialog \in 0..MaxDialogs
    /\ Len(workers) <= MaxDownloads

\* NeonPlayer.__init__
InitProgram ==
    /\ playlist = <<>>
    /\ current_index = -1
    /\ playing = FALSE
    /\ loop = FALSE
    /\ shuffle = FALSE
    /\ current_track_length = 0
    /\ current_play_offset = 0
    /\ seeking = FALSE
    /\ label_elapsed = <<0, 0>>
    /\ viz_active = FALSE
    /\ mixer = NoMusic
    /\ lastBy = "user"
    /\ cmds = <<>>
    /\ errorShown = 0
    /\ run = NoRun
    /\ widget = <<>>
    /\ album_art = "placeholder"

\* no marketplace dialog has been opened, no download thread started
InitMarket ==
    /\ dialog = 0
    /\ connections = [d \in 1..MaxDialogs |-> <<>>]
    /\ workers = <<>>
    /\ sigq = <<>>

\* the background colours and their targets at construction
InitColors ==
    /\ target_color_1 = InitColor1
    /\ target_color_2 = InitColor2
    /\ bg_color_1 = InitColor1
    /\ bg_color_2 = InitColor2

Init ==
    /\ InitProgram
    /\ InitMarket
    /\ InitColors
    /\ tags = PlainTags
    /\ server = {}
    /\ hues = PlainHues
    /\ capacity = MaxTracks

\* ------------------------------------------------------------- play_track
\* What a rejected music.load leaves behind: pygame 2 keeps the music that
\* was loaded, pygame 1.9 has already freed it.
AfterFailedLoad(m) == {m, NoMusic}

\* crossfade_slider.value() as play_track reads it: the slider is moved by
\* the user alone and nothing else reads it, so any value of its range that
\* is read here is one the user can have set.
CrossfadeValues == {0, CrossfadeMax}

\* _update_metadata(path): the artwork shown and the colours published as
\* the animation target (the track length is set by PlayTrack)
UpdateMetadata(path) ==
    LET kind == tags[path]
    IN  IF kind \in {"unreadable", "no_picture"}
        THEN \E h \in hues :
                /\ album_art' = "placeholder"
                /\ target_color_1' = NeonColors(h)[1]
                /\ target_color_2' = NeonColors(h)[2]
        ELSE IF kind = "bad_picture"
        THEN \* setPixmap of a null pixmap, has_art = True, then the conversion
             \* to a PIL image raises (defaults kept) or get_dominant_colors
             \* fails on the empty image (its fallback pair)
             \E pair \in {DefaultColors, FallbackColors} :
                /\ album_art' = "blank"
                /\ target_color_1' = pair[1]
                /\ target_color_2' = pair[2]
        ELSE LET pair == IF kind = "odd_picture" THEN FallbackColors
                         ELSE IF kind = "flat_picture"
                         THEN <<PictureColors(path)[1], DefaultColors[2]>>
                         ELSE PictureColors(path)
             IN /\ album_art' = "picture"
                /\ target_color_1' = pair[1]
                /\ target_color_2' = pair[2]

\* play_track(index).  It never assigns current_index.
PlayTrack(index) ==
    IF 0 <= index /\ index < Len(playlist)
    THEN \E crossfade_ms \in CrossfadeValues :
         LET path == playlist[index + 1]
             fade == Busy(mixer) /\ crossfade_ms > 0
             m1   == IF fade THEN Stopped(mixer) ELSE mixer
             c1   == IF fade THEN <<Cmd("fadeout", "", crossfade_ms, TRUE)>>
                             ELSE <<>>
         IN  IF Decodable(path)
             THEN /\ mixer' = [loaded |-> path, st |-> "playing", pos |-> 0]
                  /\ cmds' = c1 \o <<Cmd("load", path, 0, TRUE),
                                     Cmd("play", path, 0, TRUE)>>
                  /\ playing' = TRUE
                  /\ viz_active' = TRUE
                  /\ UpdateMetadata(path)
                  /\ current_track_length' = TrackLengthMs(path)
                  /\ errorShown' = 0
             ELSE /\ mixer' \in AfterFailedLoad(m1)
                  /\ cmds' = c1 \o <<Cmd("load", path, 0, FALSE)>>
                  /\ errorShown' = 1
                  /\ UNCHANGED <<playing, viz_active, current_track_length>>
                  /\ UNCHANGED artVars
    ELSE /\ cmds' = <<>>
         /\ errorShown' = 0
         /\ UNCHANGED <<mixer, playing, viz_active, current_track_length>>
         /\ UNCHANGED artVars

\* ------------------------------------------------------------ load / import
load_files ==
    \E n \in 1..2 : \E files \in [1..n -> Tracks] :
        /\ dialog = 0
        /\ Len(playlist) + n <= capacity
        /\ playlist' = playlist \o files
        /\ widget' = widget \o files
        /\ UNCHANGED <<artVars, bgVars, dlVars, envVars>>
        /\ current_index' = IF current_index = -1 THEN 0 ELSE current_index
        /\ cmds' = <<>> /\ errorShown' = 0 /\ run' = NoRun
        /\ lastBy' = "user"
        /\ UNCHANGED <<playing, loop, shuffle, current_track_length,
                       current_play_offset, seeking, label_elapsed,
                       viz_active, mixer>>

FolderTracks(folder) == SelectSeq(folder, LAMBDA f : Lower(Suffix(f)) \in AudioExts)

load_folder ==
    \E folder \in Folders :
        /\ dialog = 0
        /\ Len(playlist) + Len(FolderTracks(folder)) <= capacity
        /\ playlist' = playlist \o FolderTracks(folder)
        /\ widget' = widget \o FolderTracks(folder)
        /\ UNCHANGED <<artVars, bgVars, dlVars, envVars>>
        /\ current_index' = IF current_index = -1 /\ playlist' # <<>>
                            THEN 0 ELSE current_index
        /\ cmds' = <<>> /\ errorShown' = 0 /\ run' = NoRun
        /\ lastBy' = "user"
        /\ UNCHANGED <<playing, loop, shuffle, current_track_length,
                       current_play_offset, seeking, label_elapsed,
                       viz_active, mixer>>

\* _on_marketplace_download(filepath, True)
OnDownload(filepath) ==
    /\ Len(playlist) + 1 <= capacity
    /\ playlist' = Append(playlist, filepath)
    /\ widget' = Append(widget, filepath)
    /\ cmds' = <<>> /\ run' = NoRun
    /\ UNCHANGED <<current_index, playing, loop, shuffle,
                   current_track_length, current_play_offset, seeking,
                   label_elapsed, viz_active, mixer>>
    /\ UNCHANGED <<artVars, bgVars, envVars>>

\* a download that an earlier marketplace dialog started has finished
on_marketplace_download ==
    \E filepath \in Tracks :
        /\ OnDownload(filepath)
        /\ errorShown' = 0
        /\ lastBy' = "user"
        /\ UNCHANGED dlVars

\* -------------------------------------------------------------- transport
on_item_double_click ==
    \E row \in 0..(Len(playlist) - 1) :
        /\ current_index' = row
        /\ PlayTrack(row)
        /\ run' = NoRun
        /\ lastBy' = "user"
        /\ dialog = 0
        /\ UNCHANGED <<widget, bgVars, dlVars, envVars>>
        /\ UNCHANGED <<playlist, loop, shuffle, current_play_offset,
                       seeking, label_elapsed>>

\* toggle_play resuming whenever get_pos() is not the sentinel
HasResumePosition_NotNegative(m) == m.pos >= 0

\* the resume test of toggle_play: pygame.mixer.music.get_pos() > 0
HasResumePosition(m) == m.pos > 0

toggle_play ==
    /\ run' = NoRun
    /\ lastBy' = "user"
    /\ dialog = 0
    /\ UNCHANGED <<widget, bgVars, dlVars, envVars>>
    /\ UNCHANGED <<playlist, current_index, loop, shuffle,
                   current_play_offset, seeking, label_elapsed>>
    /\ IF playlist = <<>>
       THEN /\ cmds' = <<>> /\ errorShown' = 0
            /\ UNCHANGED <<playing, viz_active, mixer, current_track_length>>
            /\ UNCHANGED artVars
       ELSE IF playing
       THEN /\ mixer' = Paused(mixer)
            /\ cmds' = <<Cmd("pause", "", 0, TRUE)>>
            /\ playing' = FALSE
            /\ viz_active' = FALSE
            /\ errorShown' = 0
            /\ UNCHANGED current_track_length
            /\ UNCHANGED artVars
       ELSE IF HasResumePosition(mixer)
       THEN /\ mixer' = Unpaused(mixer)
            /\ cmds' = <<Cmd("unpause", "", 0, TRUE)>>
            /\ playing' = TRUE
            /\ viz_active' = TRUE
            /\ errorShown' = 0
            /\ UNCHANGED current_track_length
            /\ UNCHANGED artVars
       ELSE PlayTrack(current_index)

\* (current_index - 1) % len(playlist), Python's non-negative modulo
PrevIndex(i, n) == (i - 1) % n

\* next_track without the wrap-around
NextIndex_NoWrap(i, n) == i + 1

\* (current_index + 1) % len(playlist)
NextIndex(i, n) == (i + 1) % n

\* the indices next_track may assign: random.randint(0, len - 1) or the successor
NextChoices == IF shuffle THEN 0..(Len(playlist) - 1)
               ELSE {NextIndex(current_index, Len(playlist))}

\* the body of next_track
NextTrackBody ==
    IF playlist = <<>>
    THEN /\ cmds' = <<>> /\ errorShown' = 0
         /\ UNCHANGED <<current_index, playing, viz_active, mixer,
                        current_track_length>>
         /\ UNCHANGED artVars
    ELSE \E ni \in NextChoices :
            /\ current_index' = ni
            /\ PlayTrack(ni)

prev_track ==
    /\ run' = NoRun
    /\ lastBy' = "user"
    /\ dialog = 0
    /\ UNCHANGED <<widget, bgVars, dlVars, envVars>>
    /\ UNCHANGED <<playlist, loop, shuffle, current_play_offset,
                   seeking, label_elapsed>>
    /\ IF playlist = <<>>
       THEN /\ cmds' = <<>> /\ errorShown' = 0
            /\ UNCHANGED <<current_index, playing, viz_active, mixer,
                           current_track_length>>
            /\ UNCHANGED artVars
       ELSE /\ current_index' = PrevIndex(current_index, Len(playlist))
            /\ PlayTrack(current_index')

\* the run of consecutive next_track calls with shuffle off, after this call
RunAfterNext ==
    IF shuffle \/ playlist = <<>> THEN NoRun
    ELSE IF run.n > 0 /\ run.n < Len(playlist)
         THEN [run EXCEPT !.n = run.n + 1]
         ELSE IF current_index >= 0 THEN [start |-> current_index, n |-> 1]
              ELSE NoRun

next_track ==
    /\ run' = RunAfterNext
    /\ lastBy' = "user"
    /\ dialog = 0
    /\ UNCHANGED <<widget, bgVars, dlVars, envVars>>
    /\ UNCHANGED <<playlist, loop, shuffle, current_play_offset,
                   seeking, label_elapsed>>
    /\ NextTrackBody

toggle_loop ==
    /\ loop' = ~loop
    /\ cmds' = <<>> /\ errorShown' = 0 /\ run' = NoRun
    /\ lastBy' = "user"
    /\ dialog = 0
    /\ UNCHANGED <<widget, artVars, bgVars, dlVars, envVars>>
    /\ UNCHANGED <<playlist, current_index, playing, shuffle,
                   current_track_length, current_play_offset, seeking,
                   label_elapsed, viz_active, mixer>>

toggle_shuffle ==
    /\ shuffle' = ~shuffle
    /\ cmds' = <<>> /\ errorShown' = 0 /\ run' = NoRun
    /\ lastBy' = "user"
    /\ dialog = 0
    /\ UNCHANGED <<widget, artVars, bgVars, dlVars, envVars>>
    /\ UNCHANGED <<playlist, current_index, playing, loop,
                   current_track_length, current_play_offset, seeking,
                   label_elapsed, viz_active, mixer>>

\* ------------------------------------------------------------------- seek
\* progress_slider.value() while the user holds the handle: any value of the
\* slider's range (the poller leaves the slider alone while _seeking)
DragValues == IF current_track_length > 0 THEN 0..SliderMax
              ELSE {0, SliderDefaultMax}

slider_pressed ==
    /\ ~seeking
    /\ seeking' = TRUE
    /\ cmds' = <<>> /\ errorShown' = 0 /\ run' = NoRun
    /\ lastBy' = "user"
    /\ dialog = 0
    /\ UNCHANGED <<widget, artVars, bgVars, dlVars, envVars>>
    /\ UNCHANGED <<playlist, current_index, playing, loop, shuffle,
                   current_track_length, current_play_offset,
                   label_elapsed, viz_active, mixer>>

on_progress_moved ==
    \E val \in DragValues :
        /\ seeking
        /\ label_elapsed' = IF current_track_length > 0
                            THEN FormatTime(val * 1000)
                            ELSE FormatTime(0)
        /\ cmds' = <<>> /\ errorShown' = 0 /\ run' = NoRun
        /\ lastBy' = "user"
        /\ dialog = 0
        /\ UNCHANGED <<widget, artVars, bgVars, dlVars, envVars>>
        /\ UNCHANGED <<playlist, current_index, playing, loop, shuffle,
                       current_track_length, current_play_offset,
                       seeking, viz_active, mixer>>

\* whether music.play(start=seconds) is accepted: never without loaded music;
\* always from the start; from an offset only if the codec can position
StartAccepted(m, seconds) ==
    IF m.loaded = "" THEN {FALSE}
    ELSE IF seconds = 0 THEN {TRUE}
    ELSE BOOLEAN

\* whether the fallback music.set_pos(seconds) is accepted
SetPosAccepted(m) == IF m.loaded = "" THEN {FALSE} ELSE BOOLEAN

\* _seek_to without the branch that restores the paused state
SeekPlaying_Always(was_playing) == TRUE

\* self.playing after an accepted restart in _seek_to
SeekPlaying(was_playing) == was_playing

\* _seek_to(seconds)
SeekTo(seconds) ==
    LET was_playing == playing
        m1 == Stopped(mixer)
    IN \E ok \in StartAccepted(m1, seconds) :
        IF ok
        THEN /\ current_play_offset' = seconds
             /\ playing' = SeekPlaying(was_playing)
             /\ mixer' = IF was_playing
                         THEN [m1 EXCEPT !.st = "playing", !.pos = 0]
                         ELSE [m1 EXCEPT !.st = "paused", !.pos = 0]
             /\ cmds' = <<Cmd("stop", "", 0, TRUE),
                          Cmd("play", m1.loaded, seconds, TRUE)>>
                        \o (IF was_playing THEN <<>>
                            ELSE <<Cmd("pause", "", 0, TRUE)>>)
             /\ label_elapsed' = FormatTime(seconds * 1000)
        ELSE \E ok2 \in SetPosAccepted(m1) :
             /\ current_play_offset' = IF ok2 THEN seconds ELSE current_play_offset
             /\ mixer' = m1
             /\ cmds' = <<Cmd("stop", "", 0, TRUE),
                          Cmd("play", m1.loaded, seconds, FALSE),
                          Cmd("set_pos", m1.loaded, seconds, ok2)>>
             /\ UNCHANGED <<playing, label_elapsed>>

\* the seconds _on_progress_released asks for, the slider standing at val
ReleaseSeconds(val) == IF current_track_length > 0 THEN val ELSE 0

on_progress_released ==
    \E val \in DragValues :
        /\ seeking
        /\ seeking' = FALSE
        /\ SeekTo(ReleaseSeconds(val))
        /\ errorShown' = 0 /\ run' = NoRun
        /\ lastBy' = "user"
        /\ dialog = 0
        /\ UNCHANGED <<widget, artVars, bgVars, dlVars, envVars>>
        /\ UNCHANGED <<playlist, current_index, loop, shuffle,
                       current_track_length, viz_active>>

\* ------------------------------------------------------- reorder by drag
\* seq with its entry at row from taken out and put back at row to
Move(seq, from, to) ==
    LET rest == SubSeq(seq, 1, from) \o SubSeq(seq, from + 2, Len(seq))
    IN  SubSeq(rest, 1, to) \o <<seq[from + 1]>> \o SubSeq(rest, to + 1, Len(rest))

\* a drag inside playlist_widget (DragDropMode.InternalMove): Qt moves the
\* item; no slot of NeonPlayer is connected to the move
drag_reorder ==
    \E from \in 0..(Len(widget) - 1) : \E to \in 0..(Len(widget) - 1) :
        /\ from # to
        /\ dialog = 0
        /\ widget' = Move(widget, from, to)
        /\ cmds' = <<>> /\ errorShown' = 0 /\ run' = NoRun
        /\ lastBy' = "user"
        /\ UNCHANGED <<playlist, current_index, playing, loop, shuffle,
                       current_track_length, current_play_offset, seeking,
                       label_elapsed, viz_active, mixer>>
        /\ UNCHANGED <<artVars, bgVars, dlVars, envVars>>

\* ------------------------------------------------------- remove and clear
\* _remove_selected without the clamp of lines 1004-1005
RemoveClamp_NoClamp(ci, n) == ci

\* _remove_selected clamping to the length instead of the last index
RemoveClamp_ToLength(ci, n) == IF ci >= n THEN n ELSE ci

\* current_index after a pop that left n tracks
RemoveClamp(ci, n) == IF ci >= n THEN n - 1 ELSE ci

\* the playlist without its entry at 0-based row
Pop(seq, row) == SubSeq(seq, 1, row) \o SubSeq(seq, row + 2, Len(seq))

remove_selected ==
    \E row \in -1..(Len(playlist) - 1) :
        /\ IF row >= 0 /\ row < Len(playlist)
           THEN /\ playlist' = Pop(playlist, row)
                /\ widget' = Pop(widget, row)
                /\ current_index' = RemoveClamp(current_index, Len(playlist'))
           ELSE UNCHANGED <<playlist, widget, current_index>>
        /\ cmds' = <<>> /\ errorShown' = 0 /\ run' = NoRun
        /\ lastBy' = "user"
        /\ dialog = 0
        /\ UNCHANGED <<artVars, bgVars, dlVars, envVars>>
        /\ UNCHANGED <<playing, loop, shuffle, current_track_length,
                       current_play_offset, seeking, label_elapsed,
                       viz_active, mixer>>

\* _clear_playlist without line 1012 (self.playing = False)
clear_playlist_KeepPlaying ==
    /\ playlist' = <<>>
    /\ widget' = <<>>
    /\ current_index' = -1
    /\ mixer' = Stopped(mixer)
    /\ cmds' = <<Cmd("stop", "", 0, TRUE)>>
    /\ errorShown' = 0 /\ run' = NoRun
    /\ lastBy' = "user"
    /\ dialog = 0
    /\ UNCHANGED <<artVars, bgVars, dlVars, envVars>>
    /\ UNCHANGED <<playing, loop, shuffle, current_track_length,
                   current_play_offset, seeking, label_elapsed, viz_active>>

clear_playlist ==
    /\ playlist' = <<>>
    /\ widget' = <<>>
    /\ current_index' = -1
    /\ playing' = FALSE
    /\ mixer' = Stopped(mixer)
    /\ cmds' = <<Cmd("stop", "", 0, TRUE)>>
    /\ errorShown' = 0 /\ run' = NoRun
    /\ lastBy' = "user"
    /\ dialog = 0
    /\ UNCHANGED <<artVars, bgVars, dlVars, envVars>>
    /\ UNCHANGED <<loop, shuffle, current_track_length,
                   current_play_offset, seeking, label_elapsed, viz_active>>

\* ----------------------------------------------------------------- poller
\* elapsed = pos_ms / 1000.0 + _current_play_offset, kept in ms
Elapsed(pos_ms, offset) == pos_ms + offset * 1000

\* check_end without the clamp of lines 1120-1121
ShownElapsed_NoClamp(pos_ms, offset, len) == Elapsed(pos_ms, offset)

\* the elapsed time check_end hands to _format_time: clamped to a known length
ShownElapsed(pos_ms, offset, len) ==
    IF len > 0 THEN Min(Elapsed(pos_ms, offset), len) ELSE Elapsed(pos_ms, offset)

\* check_end skipping the end-of-track test during a seek-drag
TrackEnded_NotWhileSeeking == playing /\ ~Busy(mixer) /\ ~seeking

\* the end-of-track test of check_end
TrackEnded == playing /\ ~Busy(mixer)

check_end ==
    LET pos_ms == mixer.pos
        show == pos_ms >= 0 /\ ~seeking
    IN /\ label_elapsed' = IF show
                           THEN FormatTime(ShownElapsed(pos_ms, current_play_offset,
                                                        current_track_length))
                           ELSE label_elapsed
       /\ IF TrackEnded
          THEN IF loop
               THEN /\ PlayTrack(current_index)
                    /\ UNCHANGED current_index
               ELSE NextTrackBody
          ELSE /\ cmds' = <<>> /\ errorShown' = 0
               /\ UNCHANGED <<current_index, playing, viz_active, mixer,
                              current_track_length>>
               /\ UNCHANGED artVars
       /\ run' = NoRun
       /\ lastBy' = "poller"
       /\ UNCHANGED <<widget, bgVars, dlVars, envVars>>
       /\ UNCHANGED <<playlist, loop, shuffle, current_play_offset, seeking>>

\* ---------------------------------------------------------- audio backend
\* PollMs more of the loaded file have been played
MixerAdvance ==
    /\ Busy(mixer)
    /\ mixer.pos + PollMs <= MaxPos
    /\ mixer' = [mixer EXCEPT !.pos = mixer.pos + PollMs]
    /\ cmds' = <<>> /\ errorShown' = 0 /\ run' = NoRun
    /\ lastBy' = "backend"
    /\ UNCHANGED <<widget, artVars, bgVars, dlVars, envVars>>
    /\ UNCHANGED <<playlist, current_index, playing, loop, shuffle,
                   current_track_length, current_play_offset, seeking,
                   label_elapsed, viz_active>>

\* the loaded file has been played to its end
MixerFinish ==
    /\ Busy(mixer)
    /\ mixer' = Stopped(mixer)
    /\ cmds' = <<>> /\ errorShown' = 0 /\ run' = NoRun
    /\ lastBy' = "backend"
    /\ UNCHANGED <<widget, artVars, bgVars, dlVars, envVars>>
    /\ UNCHANGED <<playlist, current_index, playing, loop, shuffle,
                   current_track_length, current_play_offset, seeking,
                   label_elapsed, viz_active>>

Next ==
    \/ load_files
    \/ load_folder
    \/ on_marketplace_download
    \/ on_item_double_click
    \/ toggle_play
    \/ prev_track
    \/ next_track
    \/ toggle_loop
    \/ toggle_shuffle
    \/ slider_pressed
    \/ on_progress_moved
    \/ on_progress_released
    \/ remove_selected
    \/ clear_playlist
    \/ check_end
    \/ MixerAdvance
    \/ MixerFinish

Spec == Init /\ [][Next]_vars

\* ------------------------------------------------ artwork and its colours
\* the files with every kind of artwork they can carry
InitMeta ==
    /\ InitProgram
    /\ InitMarket
    /\ InitColors
    /\ tags \in [Tracks -> TagKinds]
    /\ \A t \in Tracks : tags[t] \in TagKindsOf(t)
    /\ tags["bad.mp3"] = "no_picture"
    /\ server = {}
    /\ hues = NeonHues
    /\ capacity = MaxTracks

NextMeta ==
    \/ load_files
    \/ on_item_double_click
    \/ toggle_play
    \/ prev_track
    \/ next_track
    \/ check_end
    \/ MixerFinish

SpecMeta == InitMeta /\ [][NextMeta]_vars

\* ------------------------------------------------- background animation
\* lerp_color with t = 1.05 instead of 0.05
LerpChannel_Overshoot(c1, c2) == c1 + (((c2 - c1) * (LerpDivisor + 1)) \div LerpDivisor)

\* one channel of lerp_color: int(c1 + (c2 - c1) * 0.05).  The sum is never
\* negative, so int() rounds it down; in double arithmetic the result is
\* c1 + floor((c2 - c1) / 20) for all channel values 0..255.
LerpChannel(c1, c2) == c1 + ((c2 - c1) \div LerpDivisor)

lerp_color(c1, c2) ==
    <<LerpChannel(c1[1], c2[1]), LerpChannel(c1[2], c2[2]), LerpChannel(c1[3], c2[3])>>

\* _animate_background, the slot of bg_timer
animate_background ==
    /\ bg_color_1' = lerp_color(bg_color_1, target_color_1)
    /\ bg_color_2' = lerp_color(bg_color_2, target_color_2)
    /\ cmds' = <<>> /\ errorShown' = 0 /\ run' = NoRun
    /\ lastBy' = "animation"
    /\ UNCHANGED <<playlist, current_index, playing, loop, shuffle,
                   current_track_length, current_play_offset, seeking,
                   label_elapsed, viz_active, mixer>>
    /\ UNCHANGED <<widget, artVars, dlVars, envVars>>

\* the first colour anywhere on the grey axis, its target anywhere on it:
\* each channel goes through every pair of current and target value
InitBg ==
    /\ InitProgram
    /\ InitMarket
    /\ \E c \in 0..ChannelMax : \E t \in 0..ChannelMax :
          /\ bg_color_1 = <<c, c, c>>
          /\ target_color_1 = <<t, t, t>>
    /\ bg_color_2 = InitColor2
    /\ target_color_2 = InitColor2
    /\ tags = PlainTags
    /\ server = {}
    /\ hues = PlainHues
    /\ capacity = MaxTracks

NextBg == animate_background

SpecBg == InitBg /\ [][NextBg]_vars

\* ------------------------------------------------- the list and its widget
InitList ==
    /\ InitProgram
    /\ InitMarket
    /\ InitColors
    /\ tags = PlainTags
    /\ server = {}
    /\ hues = PlainHues
    /\ capacity = MaxListTracks

NextList ==
    \/ load_files
    \/ load_folder
    \/ on_marketplace_download
    \/ drag_reorder
    \/ on_item_double_click
    \/ remove_selected
    \/ clear_playlist

SpecList == InitList /\ [][NextList]_vars

\* ------------------------------------------------------------- marketplace
\* the file name the user gives in the save dialog for the n-th download
SaveName(n) == IF n % 2 = 1 THEN "a.mp3" ELSE "c.OGG"

\* What a server does with the GET: ok is whether requests.get and
\* raise_for_status pass, total the Content-Length header (-1 when there is
\* none), size the bytes of the body it sends, breaks whether the connection
\* fails once they are sent.
Response(ok, total, size, breaks) ==
    [ok |-> ok, total |-> total, size |-> size, breaks |-> breaks]

\* the servers of SpecDL
SmallServer == { Response(FALSE, -1, 0, FALSE),
                 Response(TRUE, -1, 10000, FALSE),
                 Response(TRUE, 10000, 10000, FALSE),
                 Response(TRUE, 10000, ChunkSize, TRUE) }

\* the servers of SpecProgress
LargeServer == { Response(TRUE, 1000000, 1000000, FALSE),
                 Response(TRUE, 819200, 819200, FALSE),
                 Response(TRUE, -1, 1000000, FALSE) }

\* the byte counts at which (written / total) * 100, rounded to a double
\* twice, falls just below the whole number it stands for
FloatShort == { <<237568, 819200>>, <<466944, 819200>>, <<475136, 819200>> }

\* the percentage rounded up
Pct_Ceiling(written, total) == (written * 100 + total - 1) \div total

\* pct = int((written / total) * 100), in double arithmetic
Pct(written, total) ==
    IF <<written, total>> \in FloatShort
    THEN ((written * 100) \div total) - 1
    ELSE (written * 100) \div total

\* a thread that _download_selected ("download") or _import_from_url
\* ("import") has just started from dialog d
NewWorker(d, kind, dest) ==
    [dlg |-> d, kind |-> kind, dest |-> dest, pc |-> "get",
     total |-> -1, size |-> 0, left |-> 0, breaks |-> FALSE,
     written |-> 0, log |-> <<>>]

\* one emit of a signal of _DLSignals; at is the bytes written so far
Emission(sig, arg, at) == [sig |-> sig, arg |-> arg, at |-> at]

\* The slot calls an emit from a worker thread posts to the main thread: one
\* for each slot connected to that signal of dialog d, in connection order.
\* Only _download_selected connects a slot to progress.
Posted(d, sig, arg) ==
    LET slots == SelectSeq(connections[d],
                           LAMBDA k : sig # "progress" \/ k = "download")
    IN  [i \in 1..Len(slots) |-> [sig |-> sig, arg |-> arg, slot |-> slots[i]]]

\* open_marketplace: a new MarketplaceDialog, with a _DLSignals of its own,
\* enters exec().  (A dialog that was closed before any download was started
\* in it has left no trace; its number is used again.)
open_marketplace ==
    /\ dialog = 0
    /\ \E d \in 1..MaxDialogs :
          /\ connections[d] = <<>>
          /\ \A e \in 1..(d - 1) : connections[e] # <<>>
          /\ dialog' = d
    /\ cmds' = <<>> /\ errorShown' = 0 /\ run' = NoRun
    /\ lastBy' = "user"
    /\ UNCHANGED <<playlist, current_index, playing, loop, shuffle,
                   current_track_length, current_play_offset, seeking,
                   label_elapsed, viz_active, mixer>>
    /\ UNCHANGED <<widget, artVars, bgVars, envVars, connections, workers, sigq>>

\* btn_close: accept() ends the dialog's exec()
close_marketplace ==
    /\ dialog # 0
    /\ dialog' = 0
    /\ cmds' = <<>> /\ errorShown' = 0 /\ run' = NoRun
    /\ lastBy' = "user"
    /\ UNCHANGED <<playlist, current_index, playing, loop, shuffle,
                   current_track_length, current_play_offset, seeking,
                   label_elapsed, viz_active, mixer>>
    /\ UNCHANGED <<widget, artVars, bgVars, envVars, connections, workers, sigq>>

\* What _download_selected and _import_from_url do once the user has chosen
\* a destination: connect their slots to the dialog's signals, start a thread.
\* The window-modal QProgressDialog they show keeps the marketplace dialog's
\* buttons out of reach; the user is taken to dismiss it only once its
\* thread has ended.
StartWorker(kind) ==
    LET dest == SaveName(Len(workers) + 1)
    IN  /\ dialog # 0
        /\ Len(workers) < MaxDownloads
        /\ \A i \in 1..Len(workers) : workers[i].pc = "done"
        /\ connections' = [connections EXCEPT ![dialog] = Append(@, kind)]
        /\ workers' = Append(workers, NewWorker(dialog, kind, dest))
        /\ cmds' = <<>> /\ errorShown' = 0 /\ run' = NoRun
        /\ lastBy' = "user"
        /\ UNCHANGED <<playlist, current_index, playing, loop, shuffle,
                       current_track_length, current_play_offset, seeking,
                       label_elapsed, viz_active, mixer>>
        /\ UNCHANGED <<widget, artVars, bgVars, envVars, dialog, sigq>>

download_selected == StartWorker("download")

import_from_url == StartWorker("import")

\* a worker that restarts its request after a failure
AfterError_Retry == "get"

\* where a worker stands after its except branch has emitted error
AfterError == "done"

\* the worker w once it has emitted sig
Emitted(w, sig, arg, pc) ==
    [w EXCEPT !.log = Append(@, Emission(sig, arg, w.written)), !.pc = pc]

\* What thread i does next, up to and including its next emit.  It touches
\* nothing but its own locals and the signals.
worker_step ==
    \E i \in 1..Len(workers) :
        LET w == workers[i]
            Raise == /\ workers' = [workers EXCEPT ![i] =
                                        Emitted(w, "error", "failed", AfterError)]
                     /\ sigq' = sigq \o Posted(w.dlg, "error", "failed")
            Finish == /\ workers' = [workers EXCEPT ![i] =
                                         Emitted(w, "finished", w.dest, "done")]
                      /\ sigq' = sigq \o Posted(w.dlg, "finished", w.dest)
        IN  /\ w.pc # "done"
            /\ IF w.pc = "get"
               THEN \E r \in server :
                       IF ~r.ok THEN Raise
                       ELSE /\ workers' = [workers EXCEPT ![i] =
                                  [w EXCEPT !.total = r.total, !.size = r.size,
                                            !.left = r.size, !.breaks = r.breaks,
                                            !.pc = IF w.kind = "download" /\ r.total = -1
                                                   THEN "buffer" ELSE "stream"]]
                            /\ sigq' = sigq
               ELSE IF w.pc = "buffer"
               THEN \* r.content, one write, progress.emit(100)
                    IF w.breaks THEN Raise
                    ELSE LET w1 == [w EXCEPT !.written = w.size, !.left = 0]
                         IN /\ workers' = [workers EXCEPT ![i] =
                                               Emitted(w1, "progress", 100, "finish")]
                            /\ sigq' = sigq \o Posted(w.dlg, "progress", 100)
               ELSE IF w.pc = "stream" /\ w.left > 0
               THEN \* the next chunk of iter_content
                    LET n  == Min(ChunkSize, w.left)
                        w1 == [w EXCEPT !.written = w.written + n, !.left = w.left - n]
                    IN IF w.kind = "import"
                       THEN /\ workers' = [workers EXCEPT ![i] = w1]
                            /\ sigq' = sigq
                       ELSE IF w.total = 0 THEN Raise
                       ELSE /\ workers' = [workers EXCEPT ![i] =
                                  Emitted(w1, "progress", Pct(w1.written, w.total), "stream")]
                            /\ sigq' = sigq \o
                                  Posted(w.dlg, "progress", Pct(w1.written, w.total))
               ELSE \* the body is exhausted, or the whole body is written
                    IF w.pc = "stream" /\ w.breaks THEN Raise ELSE Finish
            /\ cmds' = <<>> /\ errorShown' = 0 /\ run' = NoRun
            /\ lastBy' = "worker"
            /\ UNCHANGED <<playlist, current_index, playing, loop, shuffle,
                           current_track_length, current_play_offset, seeking,
                           label_elapsed, viz_active, mixer>>
            /\ UNCHANGED <<widget, artVars, bgVars, envVars, dialog, connections>>

\* an on_error slot that also imports the file
on_error_Imports(msg) == OnDownload("bad.mp3") /\ errorShown' = 1

\* on_error(msg): QMessageBox.critical
on_error(msg) ==
    /\ errorShown' = 1
    /\ cmds' = <<>> /\ run' = NoRun
    /\ UNCHANGED <<playlist, current_index, playing, loop, shuffle,
                   current_track_length, current_play_offset, seeking,
                   label_elapsed, viz_active, mixer>>
    /\ UNCHANGED <<widget, artVars, bgVars, envVars>>

\* on_progress(val): progress.setValue(val); the progress dialog's bar is
\* not part of the state
on_progress(val) ==
    /\ cmds' = <<>> /\ errorShown' = 0 /\ run' = NoRun
    /\ UNCHANGED <<playlist, current_index, playing, loop, shuffle,
                   current_track_length, current_play_offset, seeking,
                   label_elapsed, viz_active, mixer>>
    /\ UNCHANGED <<widget, artVars, bgVars, envVars>>

\* on_finished(path): the message box, then self.on_download(path, True)
on_finished(path) == OnDownload(path) /\ errorShown' = 0

\* the main thread's event loop runs the oldest posted slot call
deliver ==
    /\ sigq # <<>>
    /\ sigq' = Tail(sigq)
    /\ LET call == Head(sigq)
       IN  IF call.sig = "finished" THEN on_finished(call.arg)
           ELSE IF call.sig = "error" THEN on_error(call.arg)
           ELSE on_progress(call.arg)
    /\ lastBy' = "signal"
    /\ UNCHANGED <<dialog, connections, workers>>

InitDL ==
    /\ InitProgram
    /\ InitMarket
    /\ InitColors
    /\ tags = PlainTags
    /\ server = SmallServer
    /\ hues = PlainHues
    /\ capacity = MaxListTracks

NextDL ==
    \/ open_marketplace
    \/ close_marketplace
    \/ download_selected
    \/ import_from_url
    \/ worker_step
    \/ deliver
    \/ check_end
    \/ animate_background

SpecDL == InitDL /\ [][NextDL]_vars

\* a download has been started from the first marketplace dialog
InitProgress ==
    /\ InitProgram
    /\ InitColors
    /\ dialog = 1
    /\ connections = [d \in 1..MaxDialogs |-> IF d = 1 THEN <<"download">> ELSE <<>>]
    /\ workers = <<NewWorker(1, "download", "a.mp3")>>
    /\ sigq = <<>>
    /\ tags = PlainTags
    /\ server = LargeServer
    /\ hues = PlainHues
    /\ capacity = MaxTracks

NextProgress ==
    \/ worker_step
    \/ deliver

SpecProgress == InitProgress /\ [][NextProgress]_vars

\* ================================================================= claims
\* a music.load of path is among the mixer calls of the step just taken
Attempted(path) == \E i \in 1..Len(cmds) : cmds[i].c = "load" /\ cmds[i].path = path

ValidIndex(i) == 0 <= i /\ i < Len(playlist)

\* C1: in every reachable state current_index is -1 or a valid index into
\* the playlist, whatever loads, imports, activations, next (shuffled or
\* not), previous, removals, clears and poller ticks came before.
C1_IndexValid == current_index = -1 \/ ValidIndex(current_index)

\* a shuffled next(), run by the poller at a track's end, chose the last index
C1_Witness ==
    /\ shuffle /\ lastBy = "poller" /\ Called("load")
    /\ Len(playlist) = 2 /\ current_index = 1

\* C2: when the mixer rejects the track in a play started by toggle_play
\* (play called directly), next(), previous() or the poller's end-of-track
\* transition, current_index and playing keep the values they had before
\* that operation began.  (A row activation, which selects the row it is
\* given, is left out of the statement.)
C2_NoAdvanceOnFailure ==
    [][ (errorShown' = 1 /\ (toggle_play \/ next_track \/ prev_track \/ check_end)) =>
          (current_index' = current_index /\ playing' = playing) ]_vars

\* C3: a rejected load leaves the controller Stopped (playing false), is
\* reported once, and the poller tick that follows it attempts no load.
C3_FailureStops ==
    [][ /\ errorShown' = 1 => ~playing'
        /\ errorShown' <= 1
        /\ (errorShown = 1 /\ lastBy' = "poller") => ~Called("load")' ]_vars

\* C4: on a poller tick with playing true and the mixer not busy the Ended
\* transition fires, seek-drag or not: with loop the same index is played
\* again, otherwise next() runs (successor index, or any index under
\* shuffle); with playing false the tick starts nothing.
C4_EndedTransition ==
    [][ lastBy' = "poller" =>
          /\ (playing /\ mixer.st # "playing" /\ loop) =>
                /\ current_index' = current_index
                /\ ValidIndex(current_index) => Attempted(playlist[current_index + 1])'
          /\ (playing /\ mixer.st # "playing" /\ ~loop /\ playlist # <<>>) =>
                /\ IF shuffle THEN current_index' \in 0..(Len(playlist) - 1)
                   ELSE current_index' = (current_index + 1) % Len(playlist)
                /\ Attempted(playlist[current_index + 1])'
          /\ ~playing =>
                /\ ~Called("load")' /\ ~Called("play")'
                /\ UNCHANGED <<current_index, playing, mixer>> ]_vars

\* a tick during a seek-drag found the track ended and started a track
C4_Witness ==
    /\ lastBy = "poller" /\ seeking /\ Called("load") /\ Called("play")
    /\ playing /\ mixer.st = "playing" /\ mixer.pos = 0

\* C5: with shuffle off and the playlist untouched, the k-th of up to N
\* consecutive next() calls from a valid start index leaves current_index at
\* (start + k) % N, so N calls visit the rotation and end at start; next()
\* and previous() on an empty playlist change nothing.
C5_Rotation ==
    [][ /\ run'.n > 0 =>
            /\ playlist' = playlist
            /\ current_index' = (run'.start + run'.n) % Len(playlist)
        /\ (playlist = <<>> /\ (next_track \/ prev_track)) => UNCHANGED progVars ]_vars

\* N = 2 consecutive next() calls are done and the index is back at start
C5_Witness ==
    /\ Len(playlist) = 2 /\ run.n = 2 /\ current_index = run.start

\* C6: after remove(i) current_index is below the new length: unchanged
\* when still valid, otherwise the new last index (-1 once empty).
C6_RemoveClamps ==
    [][ (remove_selected /\ Len(playlist') < Len(playlist)) =>
          /\ current_index' < Len(playlist')
          /\ current_index' = IF current_index < Len(playlist') THEN current_index
                              ELSE Len(playlist') - 1 ]_vars

\* the only track was removed while it played: index clamped to -1
C6_Witness ==
    /\ playlist = <<>> /\ current_index = -1 /\ playing /\ mixer.loaded # ""
    /\ lastBy = "user" /\ cmds = <<>>

\* C7: a seek whose restart the mixer accepts leaves playing as it was (a
\* paused track stays paused, a playing one keeps playing) and saves the
\* requested seconds as the offset.
C7_SeekPreservesTransport ==
    [][ (Len(cmds') >= 2 /\ cmds'[1].c = "stop" /\ cmds'[2].c = "play" /\ cmds'[2].ok) =>
          /\ playing' = playing
          /\ current_play_offset' = cmds'[2].n
          /\ mixer'.st = IF playing THEN "playing" ELSE "paused" ]_vars

\* a paused track was sought to second 1 and is still paused
C7_Witness ==
    /\ ~playing /\ mixer.st = "paused" /\ current_play_offset = 1
    /\ Len(cmds) = 3 /\ cmds[1].c = "stop" /\ cmds[2].n = 1 /\ cmds[3].c = "pause"

\* the label's text <<minutes, seconds>> as milliseconds
LabelMs(label) == (label[1] * 60 + label[2]) * 1000

\* C8 as stated: on a tick with position p >= 0, offset o, length L > 0 and
\* no seek-drag, the displayed elapsed time equals min(p/1000 + o, L).
C8_ExactElapsed ==
    [][ (lastBy' = "poller" /\ mixer.pos >= 0 /\ ~seeking /\ current_track_length > 0) =>
          LabelMs(label_elapsed') =
              Min(mixer.pos + current_play_offset * 1000, current_track_length) ]_vars

\* C8 as amended: the displayed elapsed time is min(p/1000 + o, L) cut to
\* whole seconds, shown as minutes and seconds, and never exceeds L.
C8_TruncatedElapsed ==
    [][ (lastBy' = "poller" /\ mixer.pos >= 0 /\ ~seeking /\ current_track_length > 0) =>
          LET secs == Min(mixer.pos + current_play_offset * 1000,
                          current_track_length) \div 1000
          IN /\ label_elapsed' = <<secs \div 60, secs % 60>>
             /\ LabelMs(label_elapsed') <= current_track_length ]_vars

\* the backend stands 1.5 s into a 1 s track and the tick showed 0:01
C8_Witness ==
    /\ lastBy = "poller" /\ ~seeking /\ current_track_length = 1000
    /\ mixer.pos = 1500 /\ current_play_offset = 0 /\ label_elapsed = <<0, 1>>

\* C9: togglePlayPause on a non-empty playlist pauses when playing
\* (visualizer off); resumes the loaded track without a reload when not
\* playing and get_pos() > 0; otherwise plays current_index.  On an empty
\* playlist it changes nothing.
C9_TogglePlayPause ==
    [][ toggle_play =>
          /\ playlist = <<>> => UNCHANGED progVars
          /\ (playlist # <<>> /\ playing) =>
                /\ ~playing' /\ ~viz_active'
                /\ cmds' = <<Cmd("pause", "", 0, TRUE)>>
                /\ mixer'.st # "playing" /\ mixer'.loaded = mixer.loaded
          /\ (playlist # <<>> /\ ~playing /\ mixer.pos > 0) =>
                /\ playing' /\ viz_active'
                /\ cmds' = <<Cmd("unpause", "", 0, TRUE)>>
                /\ mixer'.loaded = mixer.loaded /\ mixer'.pos = mixer.pos
                /\ mixer.st = "paused" => mixer'.st = "playing"
          /\ (playlist # <<>> /\ ~playing /\ mixer.pos <= 0) =>
                /\ ~Called("unpause")'
                /\ ValidIndex(current_index) => Attempted(playlist[current_index + 1])'
                /\ ~ValidIndex(current_index) => UNCHANGED progVars ]_vars

\* a paused track was resumed where it stood
C9_Witness ==
    /\ cmds = <<Cmd("unpause", "", 0, TRUE)>> /\ playing /\ viz_active
    /\ mixer.st = "playing" /\ mixer.pos > 0

\* C10: clear() leaves the playlist empty, current_index -1, playing false
\* and the mixer stopped, from any state; a poller tick on an empty playlist
\* starts no track.
C10_ClearResets ==
    [][ /\ clear_playlist =>
              /\ playlist' = <<>> /\ current_index' = -1 /\ ~playing'
              /\ Called("stop")' /\ mixer'.st = "idle"
        /\ (lastBy' = "poller" /\ playlist = <<>>) =>
              /\ ~Called("load")' /\ ~Called("play")'
              /\ mixer' = mixer ]_vars

\* the playlist was cleared while a track was loaded in the mixer
C10_Witness ==
    /\ cmds = <<Cmd("stop", "", 0, TRUE)>> /\ playlist = <<>> /\ current_index = -1
    /\ ~playing /\ mixer.loaded # "" /\ mixer.st = "idle"

\* C11: the playlist is the sequence the list widget shows: a drag moves
\* the track in the playlist as it moves the row, so that a double click on
\* a row loads the track that row displays.
C11_RowPlaysShown ==
    [][ /\ drag_reorder => playlist' = widget'
        /\ on_item_double_click =>
              \A i \in 1..Len(cmds') :
                  cmds'[i].c = "load" => cmds'[i].path = widget[current_index' + 1] ]_vars

\* C20: removing a row other than the current one leaves current_index on
\* the track it was on.  (The step is taken as such a removal when the new
\* playlist is the old one without some other row and is not the old one
\* without the current row.)
C20_RemoveKeepsCurrent ==
    [][ (/\ remove_selected
         /\ ValidIndex(current_index)
         /\ playlist' # Pop(playlist, current_index)
         /\ \E row \in 0..(Len(playlist) - 1) :
                row # current_index /\ playlist' = Pop(playlist, row)) =>
          /\ 0 <= current_index' /\ current_index' < Len(playlist')
          /\ playlist'[current_index' + 1] = playlist[current_index + 1] ]_vars

\* the distance of a channel from its target
Dist(a, b) == IF a < b THEN b - a ELSE a - b

Between(x, a, b) == (a <= x /\ x <= b) \/ (b <= x /\ x <= a)

\* C15: with the target fixed, an animation tick brings every channel that
\* is 2 or more levels from its target strictly closer to it, rising or
\* falling.
C15_StrictlyCloser ==
    [][ animate_background =>
          \A k \in 1..3 :
              /\ Dist(bg_color_1[k], target_color_1[k]) >= 2 =>
                    Dist(bg_color_1'[k], target_color_1[k]) <
                        Dist(bg_color_1[k], target_color_1[k])
              /\ Dist(bg_color_2[k], target_color_2[k]) >= 2 =>
                    Dist(bg_color_2'[k], target_color_2[k]) <
                        Dist(bg_color_2[k], target_color_2[k]) ]_vars

\* C16: an animation tick leaves the target alone and puts every channel
\* between its old value and the target, inside 0..255; tick after tick
\* from C, the channel therefore stays within [min(C,T), max(C,T)].
C16_NoOvershoot ==
    [][ lastBy' = "animation" =>
          /\ target_color_1' = target_color_1 /\ target_color_2' = target_color_2
          /\ \A k \in 1..3 :
                /\ Between(bg_color_1'[k], bg_color_1[k], target_color_1[k])
                /\ Between(bg_color_2'[k], bg_color_2[k], target_color_2[k])
                /\ bg_color_1'[k] \in 0..255 /\ bg_color_2'[k] \in 0..255 ]_vars

\* a tick took a channel from 0 towards 255, and one from 255 towards 0
C16_Witness ==
    /\ lastBy = "animation"
    /\ \/ bg_color_1 = <<12, 12, 12>> /\ target_color_1 = <<255, 255, 255>>
       \/ bg_color_1 = <<242, 242, 242>> /\ target_color_1 = <<0, 0, 0>>

\* the colour pairs _update_metadata generates from a random hue
ProceduralPairs == {NeonColors(h) : h \in NeonHues}

\* C17: a track change onto a file whose tags cannot be read, hold no
\* picture, hold a picture that does not decode, or hold one the colour
\* extraction fails on, ends with the placeholder shown and a generated
\* colour pair as the animation target, raises no dialog, and leaves playing
\* and current_index as play_track set them.
C17_PlaceholderOnFailure ==
    [][ \A p \in Tracks :
          (/\ \E i \in 1..Len(cmds') : cmds'[i] = Cmd("play", p, 0, TRUE)
           /\ tags[p] \in {"unreadable", "no_picture", "bad_picture", "odd_picture"}) =>
             /\ album_art' = "placeholder"
             /\ <<target_color_1', target_color_2'>> \in ProceduralPairs
             /\ errorShown' = 0
             /\ playing'
             /\ ValidIndex(current_index') /\ playlist[current_index' + 1] = p ]_vars

\* C18: whenever play_track loads and starts a track, the saved seek offset
\* is 0 afterwards, so that the poller's elapsed time for the new track is
\* the mixer's position since the start.
C18_OffsetResetOnPlay ==
    [][ (\E i \in 1..Len(cmds') : cmds'[i].c = "load" /\ cmds'[i].ok) =>
          current_play_offset' = 0 ]_vars

\* the positions of the terminal emissions (finished, error) in a log
Terminals(log) == {j \in 1..Len(log) : log[j].sig \in {"finished", "error"}}

\* C12: a download thread emits at most one terminal signal, finished with
\* its destination path or error, and nothing after it; it has ended exactly
\* when it has emitted one; an ended thread does nothing more, and threads
\* are started by the user's clicks alone (no retry).
C12_OneTerminal ==
    [][ /\ \A i \in 1..Len(workers') :
              LET w == workers'[i]
              IN  /\ Cardinality(Terminals(w.log)) <= 1
                  /\ \A j \in Terminals(w.log) :
                        /\ j = Len(w.log)
                        /\ w.log[j].sig = "finished" => w.log[j].arg = w.dest
                  /\ w.pc = "done" <=> Terminals(w.log) # {}
        /\ \A i \in 1..Len(workers) :
              Terminals(workers[i].log) # {} => workers'[i] = workers[i]
        /\ Len(workers') > Len(workers) =>
              lastBy' = "user" /\ Len(workers') = Len(workers) + 1 ]_vars

\* a thread wrote a chunk, reported it, and then failed: progress, then error
C12_Witness ==
    \E i \in 1..Len(workers) :
        /\ workers[i].pc = "done"
        /\ Len(workers[i].log) = 2
        /\ workers[i].log[1].sig = "progress"
        /\ workers[i].log[2].sig = "error"

\* the progress emissions of a thread, in order
ProgressOf(w) == SelectSeq(w.log, LAMBDA e : e.sig = "progress")

\* a download whose declared length is the number of bytes delivered
Exact(w) == w.kind = "download" /\ w.total >= 0 /\ w.size = w.total /\ ~w.breaks

\* C13 as stated: for such a download the reported percentages are
\* floor(written * 100 / total), never decrease, stay in 0..100, and 100 is
\* reported only once the last chunk is written; with no declared length
\* the only value reported is 100, after the whole body is written.
C13_FloorProgress ==
    \A i \in 1..Len(workers) :
        LET w == workers[i]
            pr == ProgressOf(w)
        IN  /\ Exact(w) =>
                  /\ \A j \in 1..Len(pr) :
                        /\ pr[j].arg = (pr[j].at * 100) \div w.total
                        /\ pr[j].arg \in 0..100
                        /\ pr[j].arg = 100 => pr[j].at = w.total
                  /\ \A j \in 1..Len(pr) : \A k \in j..Len(pr) : pr[j].arg <= pr[k].arg
            /\ (w.kind = "download" /\ w.total = -1) =>
                  \A j \in 1..Len(pr) : pr[j].arg = 100 /\ pr[j].at = w.size

\* C13 as amended: the reported percentage is floor(written * 100 / total)
\* or, where the double arithmetic falls short, one less; the rest as stated.
C13_Progress ==
    \A i \in 1..Len(workers) :
        LET w == workers[i]
            pr == ProgressOf(w)
        IN  /\ Exact(w) =>
                  /\ \A j \in 1..Len(pr) :
                        /\ pr[j].arg \in { (pr[j].at * 100) \div w.total,
                                           ((pr[j].at * 100) \div w.total) - 1 }
                        /\ pr[j].arg \in 0..100
                        /\ pr[j].arg = 100 => pr[j].at = w.total
                  /\ \A j \in 1..Len(pr) : \A k \in j..Len(pr) : pr[j].arg <= pr[k].arg
            /\ (w.kind = "download" /\ w.total = -1) =>
                  \A j \in 1..Len(pr) : pr[j].arg = 100 /\ pr[j].at = w.size

\* 1,000,000 bytes came in 123 chunks: 99 after the 122nd, 100 after the last
C13_Witness ==
    \E i \in 1..Len(workers) :
        LET pr == ProgressOf(workers[i])
        IN  /\ workers[i].total = 1000000 /\ workers[i].pc = "done"
            /\ Len(pr) = 123 /\ pr[122].arg = 99 /\ pr[123].arg = 100

\* C14: a step of a download thread leaves the playlist, the playback state
\* and the colours alone; the playlist changes only in main-thread slots;
\* the slot of an error call leaves it alone, and a slot call changes it
\* only by appending the path of a finished call, which a thread that
\* succeeded emitted.
C14_MainThreadOnly ==
    [][ /\ lastBy' = "worker" =>
              UNCHANGED <<playlist, widget, current_index, playing, loop, shuffle,
                          current_track_length, current_play_offset, seeking,
                          label_elapsed, viz_active, album_art,
                          target_color_1, target_color_2, bg_color_1, bg_color_2>>
        /\ playlist' # playlist => lastBy' \in {"user", "signal"}
        /\ (lastBy' = "signal" /\ Head(sigq).sig = "error") => playlist' = playlist
        /\ (lastBy' = "signal" /\ playlist' # playlist) =>
              /\ Head(sigq).sig = "finished"
              /\ playlist' = Append(playlist, Head(sigq).arg)
              /\ \E i \in 1..Len(workers) :
                    /\ workers[i].dest = Head(sigq).arg
                    /\ \E j \in Terminals(workers[i].log) :
                          workers[i].log[j].sig = "finished" ]_vars

\* the first download failed and added nothing; the second, from a new
\* dialog, succeeded and its slot appended the file
C14_Witness ==
    /\ lastBy = "signal" /\ sigq = <<>> /\ Len(workers) = 2
    /\ workers[1].log # <<>> /\ workers[1].log[Len(workers[1].log)].sig = "error"
    /\ workers[2].log # <<>> /\ workers[2].log[Len(workers[2].log)].sig = "finished"
    /\ playlist = <<workers[2].dest>>

\* the threads that have emitted finished
Succeeded == {i \in 1..Len(workers) :
                \E j \in Terminals(workers[i].log) : workers[i].log[j].sig = "finished"}

\* how often path stands in seq
Count(seq, path) == Cardinality({j \in 1..Len(seq) : seq[j] = path})

\* C19: each successful download is appended exactly once: the playlist
\* never holds a path more often than downloads to it have succeeded, and
\* holds it exactly that often once every posted slot call has run.
C19_AppendedOnce ==
    \A path \in Tracks :
        LET k == Cardinality({i \in Succeeded : workers[i].dest = path})
        IN  /\ Count(playlist, path) <= k
            /\ sigq = <<>> => Count(playlist, path) = k

\* C21: whenever playing is true the playlist is non-empty and
\* current_index is a valid index into it; removing tracks while playing
\* never leaves playing set with no current track.
C21_PlayingHasCurrent ==
    playing => (playlist # <<>> /\ ValidIndex(current_index))

\* C22: with tracks added by any path (load_files, load_folder or a
\* marketplace download) a non-empty playlist has a valid current_index
\* (>= 0), so that toggle_play on a playlist never started plays a track.
C22_LoadedHasCurrent ==
    playlist # <<>> => ValidIndex(current_index)

\* C23: releasing the progress slider while a track of unknown length
\* (current_track_length = 0) is loaded is a no-op: no stop or play reaches
\* the mixer, and the playback position, the saved seek offset and playing
\* stay as they were.
C23_ReleaseUnknownNoOp ==
    [][ (current_track_length = 0 /\ mixer.loaded # "" /\ on_progress_released) =>
          /\ ~Called("stop")' /\ ~Called("play")'
          /\ mixer' = mixer
          /\ current_play_offset' = current_play_offset
          /\ playing' = playing ]_vars

====
